---- MODULE Spec2Model ----
(***************************************************************************)
(* A model of the mq MCP server (src/src/server.rs): the four tools of     *)
(* `impl Server`, each handled in one of NumSlots concurrent request       *)
(* slots.  html_to_markdown and extract_markdown are three steps each      *)
(* (build the engine and parse; evaluate; project), so that calls in       *)
(* different slots interleave between the steps; the two listing tools     *)
(* are one step each.  The external crates (mq_markdown, mq_lang, mq_hir,  *)
(* serde_json) are modelled at the call sites, on a small vocabulary of    *)
(* texts and queries: those of the tests of server.rs, and one for each    *)
(* further outcome the handlers distinguish (a rejected text, a failure    *)
(* at run time, an empty value, a definition left in the engine).          *)
(***************************************************************************)
EXTENDS Naturals, Sequences, FiniteSets, TLC

\* Number of requests that can be in flight at once.
NumSlots == 2

Slots == 1..NumSlots

VARIABLES
    pc,        \* slot -> "idle" | "parsed" | "evaluated" | "done"
    req,       \* slot -> the call's tool name and parameters
    engine,    \* slot -> the call's local `engine`
    markdown,  \* slot -> the call's local `markdown.nodes`
    values,    \* slot -> the call's local `values`
    resp,      \* slot -> the McpResult the call returned (or its panic)
    log,       \* slot -> the external calls the handler has made, in order
    serde_ok   \* whether serde_json::to_string succeeds on the listings

vars == <<pc, req, engine, markdown, values, resp, log, serde_ok>>

-----------------------------------------------------------------------------
(* Texts and queries *)

HtmlDoc == "<h1>Test Heading</h1><p>This is a test paragraph.</p>"
EmptyDoc == ""
\* Stands for any input the parser cannot recover from.
Unparseable == "<unparseable>"

Texts == {HtmlDoc, EmptyDoc, Unparseable}

QIdentity == "identity()"
QH1 == ".h1"
QMalformed == "not_a_function("
QRuntimeFail == "div(1, 0)"
QDef == "def greet(): \"hi\"; | greet()"
QUse == "greet()"
QEmptyStr == "\"\""

Queries == {QIdentity, QH1, QMalformed, QRuntimeFail, QDef, QUse, QEmptyStr}

\* Option<String>
None == [some |-> FALSE, value |-> ""]
Some(q) == [some |-> TRUE, value |-> q]

\* A default that selects instead of passing everything through.
DefaultQueryH1 == ".h1"

DefaultQuery == "identity()"

unwrap_or(opt, default) == IF opt.some THEN opt.value ELSE default

-----------------------------------------------------------------------------
(* mq_markdown::Markdown::from_html_str *)

Node(kind, text) == [kind |-> kind, text |-> text]

from_html_str(text) ==
    CASE text = HtmlDoc ->
           [ok |-> TRUE,
            nodes |-> <<Node("h1", "Test Heading"),
                        Node("p", "This is a test paragraph.")>>,
            err |-> ""]
      [] text = EmptyDoc ->
           [ok |-> TRUE, nodes |-> <<>>, err |-> ""]
      [] OTHER ->
           [ok |-> FALSE, nodes |-> <<>>, err |-> "unrecoverable markup"]

-----------------------------------------------------------------------------
(* mq_lang::RuntimeValue *)

RvMarkdown(node) == [type |-> "Markdown", kind |-> node.kind, text |-> node.text]
RvString(s) == [type |-> "String", kind |-> "", text |-> s]
RvNone == [type |-> "None", kind |-> "", text |-> ""]

RuntimeValue_from(node) == RvMarkdown(node)

is_none(value) == value.type = "None"

is_empty(value) ==
    CASE value.type = "None" -> TRUE
      [] value.type = "String" -> value.text = ""
      [] OTHER -> value.text = ""

to_string(value) ==
    CASE value.type = "None" -> ""
      [] value.type = "String" -> value.text
      [] value.kind = "h1" -> "# " \o value.text
      [] OTHER -> value.text

\* nodes.into_iter().map(RuntimeValue::from)
into_values(nodes) == [i \in 1..Len(nodes) |-> RuntimeValue_from(nodes[i])]

-----------------------------------------------------------------------------
(* mq_lang::DefaultEngine *)

BuiltinNames == {"identity", "div"}

\* The `engine` of a slot that handles no call.
NoEngine == [builtin |-> FALSE, defined |-> {}]

\* An engine kept in a process-wide static: a new call finds the engine of a
\* call still in flight.
SharedEngine ==
    IF \E t \in Slots : pc[t] \in {"parsed", "evaluated"}
    THEN engine[CHOOSE t \in Slots : pc[t] \in {"parsed", "evaluated"}]
    ELSE [builtin |-> FALSE, defined |-> {}]

DefaultEngine_default == [builtin |-> FALSE, defined |-> {}]

load_builtin_module(e) == [e EXCEPT !.builtin = TRUE]

Callable(e, name) ==
    (e.builtin /\ name \in BuiltinNames) \/ name \in e.defined

EvalOk(e, vals) == [ok |-> TRUE, values |-> vals, err |-> "", engine |-> e]
EvalErr(e, msg) == [ok |-> FALSE, values |-> <<>>, err |-> msg, engine |-> e]

SelectH1(v) == IF v.kind = "h1" THEN v ELSE RvNone
ConstHi(v) == RvString("hi")
ConstEmpty(v) == RvString("")

\* engine.eval(query, input): the program is compiled first, then run once
\* per input value; definitions made by the program stay in the engine.
engine_eval(e, query, input) ==
    CASE query = QIdentity ->
           IF Callable(e, "identity") THEN EvalOk(e, input)
           ELSE EvalErr(e, "identity: function not found")
      [] query = QH1 -> EvalOk(e, [i \in 1..Len(input) |-> SelectH1(input[i])])
      [] query = QMalformed -> EvalErr(e, "unexpected end of input")
      [] query = QRuntimeFail ->
           IF ~Callable(e, "div") THEN EvalErr(e, "div: function not found")
           ELSE IF Len(input) > 0 THEN EvalErr(e, "division by zero")
           ELSE EvalOk(e, <<>>)
      [] query = QDef ->
           EvalOk([e EXCEPT !.defined = @ \cup {"greet"}], [i \in 1..Len(input) |-> ConstHi(input[i])])
      [] query = QUse ->
           IF Callable(e, "greet") THEN EvalOk(e, [i \in 1..Len(input) |-> ConstHi(input[i])])
           ELSE EvalErr(e, "greet: function not found")
      [] query = QEmptyStr -> EvalOk(e, [i \in 1..Len(input) |-> ConstEmpty(input[i])])
      [] OTHER -> EvalErr(e, "unexpected token")

-----------------------------------------------------------------------------
(* McpResult = Result<CallToolResult, ErrorData> *)

NoError == [code |-> "", message |-> "", data |-> ""]

parse_error(message, data) ==
    [code |-> "PARSE_ERROR", message |-> message, data |-> data]

invalid_request(message, data) ==
    [code |-> "INVALID_REQUEST", message |-> message, data |-> data]

Content_text(t) == [type |-> "text", text |-> t]

CallToolResult_success(content) ==
    [tag |-> "Ok", content |-> content, error |-> NoError]

Err(e) == [tag |-> "Err", content |-> <<>>, error |-> e]

Panic(msg) == [tag |-> "Panic", content |-> <<>>, error |-> [NoError EXCEPT !.message = msg]]

NoResp == [tag |-> "", content |-> <<>>, error |-> NoError]

-----------------------------------------------------------------------------
(* The result projection of both handlers *)

\* The two tests joined with "and": a value is dropped only when it is both
\* none and empty.
RECURSIVE filter_map_and(_)
filter_map_and(vals) ==
    IF vals = <<>> THEN <<>>
    ELSE IF is_none(Head(vals)) /\ is_empty(Head(vals))
         THEN filter_map_and(Tail(vals))
         ELSE <<Content_text(to_string(Head(vals)))>> \o filter_map_and(Tail(vals))

RECURSIVE filter_map(_)
filter_map(vals) ==
    IF vals = <<>> THEN <<>>
    ELSE IF is_none(Head(vals)) \/ is_empty(Head(vals))
         THEN filter_map(Tail(vals))
         ELSE <<Content_text(to_string(Head(vals)))>> \o filter_map(Tail(vals))

-----------------------------------------------------------------------------
(* mq_hir::Hir::default().builtin: the fixed registry, in iteration order *)

Doc(name, description, params) ==
    [name |-> name, description |-> description, params |-> params]

builtin_functions ==
    <<Doc("upcase", "Converts the input to uppercase", <<"input">>),
      Doc("add", "Adds two values", <<"value1", "value2">>)>>

builtin_internal_functions ==
    <<Doc("identity", "Returns the input unchanged", <<>>)>>

builtin_selectors ==
    <<Doc(".h1", "Selects a level-1 heading", <<>>),
      Doc(".code", "Selects a code block", <<"lang">>)>>

FunctionInfo(doc) ==
    [name |-> doc.name, description |-> doc.description,
     params |-> doc.params, is_builtin |-> TRUE]

SelectorInfo(doc) ==
    [name |-> doc.name, description |-> doc.description, params |-> doc.params]

\* The example list with its last entry lost.
ExamplesTwo ==
    <<"select(or(.[], .code, .h)) | upcase() | add(\" Hello World\")",
      "select(not(.code))">>

Examples ==
    <<"select(or(.[], .code, .h)) | upcase() | add(\" Hello World\")",
      "select(not(.code))",
      ".code(\"js\")">>

-----------------------------------------------------------------------------
(* serde_json: the serialized text as its sequence of JSON tokens.  An     *)
(* object's keys are written in sorted order (serde_json's Map).           *)

Tok(k, v) == [k |-> k, v |-> v]
Punct(c) == Tok("punct", c)

RECURSIVE JoinComma(_)
JoinComma(items) ==
    IF items = <<>> THEN <<>>
    ELSE IF Len(items) = 1 THEN items[1]
    ELSE items[1] \o <<Punct(",")>> \o JoinComma(Tail(items))

SerString(s) == <<Tok("str", s)>>
SerBool(b) == <<Tok("lit", IF b THEN "true" ELSE "false")>>
SerArray(items) == <<Punct("[")>> \o JoinComma(items) \o <<Punct("]")>>
SerField(key, val) == <<Tok("str", key), Punct(":")>> \o val
SerObject(fields) == <<Punct("{")>> \o JoinComma(fields) \o <<Punct("}")>>

SerStrings(seq) == SerArray([i \in 1..Len(seq) |-> SerString(seq[i])])

SerFunctionInfo(f) ==
    SerObject(<<SerField("description", SerString(f.description)),
                SerField("is_builtin", SerBool(f.is_builtin)),
                SerField("name", SerString(f.name)),
                SerField("params", SerStrings(f.params))>>)

SerSelectorInfo(f) ==
    SerObject(<<SerField("description", SerString(f.description)),
                SerField("name", SerString(f.name)),
                SerField("params", SerStrings(f.params))>>)

\* json!({"functions": functions, "examples": vec![...]})
functions_output(functions) ==
    SerObject(<<SerField("examples", SerStrings(Examples)),
                SerField("functions", SerArray([i \in 1..Len(functions) |-> SerFunctionInfo(functions[i])]))>>)

\* json!({"selectors": selectors})
selectors_output(selectors) ==
    SerObject(<<SerField("selectors", SerArray([i \in 1..Len(selectors) |-> SerSelectorInfo(selectors[i])]))>>)

\* serde_json::to_string(&output)
serde_json_to_string(output) ==
    IF serde_ok THEN [ok |-> TRUE, text |-> output]
    ELSE [ok |-> FALSE, text |-> <<>>]

\* Result::expect(msg)
expect(r, msg) ==
    IF r.ok THEN CallToolResult_success(<<Content_text(r.text)>>)
    ELSE Panic(msg)

-----------------------------------------------------------------------------
(* html_to_markdown *)

Request(op, text, query) == [op |-> op, text |-> text, query |-> query]
NoReq == Request("", "", None)

\* let mut engine = DefaultEngine::default(); engine.load_builtin_module();
new_engine == load_builtin_module(DefaultEngine_default)

\* from_html_str(&html).map_err(..)?
html_parse_step(html) ==
    LET r == from_html_str(html)
    IN IF r.ok
       THEN [pc |-> "parsed", nodes |-> r.nodes, resp |-> NoResp]
       ELSE [pc |-> "done", nodes |-> <<>>,
             resp |-> Err(parse_error("Failed to parse html", r.err))]

html_query_error(e) == invalid_request("Failed to query", e)

\* An evaluation failure reported together with the rendered input.
html_eval_step_partial(e, query, nodes) ==
    LET r == engine_eval(e, unwrap_or(query, "identity()"),
                         into_values(nodes))
    IN IF r.ok
       THEN [pc |-> "evaluated", values |-> r.values, resp |-> NoResp,
             engine |-> r.engine]
       ELSE [pc |-> "done", values |-> <<>>,
             resp |-> [tag |-> "Err",
                       content |-> [i \in 1..Len(nodes) |->
                                     Content_text(to_string(RuntimeValue_from(nodes[i])))],
                       error |-> invalid_request("Failed to query", r.err)],
             engine |-> r.engine]

\* engine.eval(&query.unwrap_or("identity()"), nodes.map(RuntimeValue::from)).map_err(..)?
html_eval_step(e, query, nodes) ==
    LET r == engine_eval(e, unwrap_or(query, DefaultQuery),
                         into_values(nodes))
    IN IF r.ok
       THEN [pc |-> "evaluated", values |-> r.values, resp |-> NoResp,
             engine |-> r.engine]
       ELSE [pc |-> "done", values |-> <<>>,
             resp |-> Err(html_query_error(r.err)), engine |-> r.engine]

\* Ok(CallToolResult::success(values.into_iter().filter_map(..).collect()))
html_project_step(vals) == CallToolResult_success(filter_map(vals))

html_to_markdown_parse(s, html, query) ==
    /\ pc[s] = "idle"
    /\ LET st == html_parse_step(html)
       IN /\ pc' = [pc EXCEPT ![s] = st.pc]
          /\ markdown' = [markdown EXCEPT ![s] = st.nodes]
          /\ resp' = [resp EXCEPT ![s] = st.resp]
    /\ req' = [req EXCEPT ![s] = Request("html_to_markdown", html, query)]
    /\ engine' = [engine EXCEPT ![s] = new_engine]
    /\ log' = [log EXCEPT ![s] = <<"default", "load_builtin_module", "from_html_str">>]
    /\ UNCHANGED <<values, serde_ok>>

html_to_markdown_eval(s) ==
    /\ pc[s] = "parsed"
    /\ req[s].op = "html_to_markdown"
    /\ LET st == html_eval_step(engine[s], req[s].query, markdown[s])
       IN /\ pc' = [pc EXCEPT ![s] = st.pc]
          /\ values' = [values EXCEPT ![s] = st.values]
          /\ resp' = [resp EXCEPT ![s] = st.resp]
          /\ engine' = [engine EXCEPT ![s] = st.engine]
    /\ log' = [log EXCEPT ![s] = Append(@, "eval")]
    /\ UNCHANGED <<req, markdown, serde_ok>>

html_to_markdown_project(s) ==
    /\ pc[s] = "evaluated"
    /\ req[s].op = "html_to_markdown"
    /\ pc' = [pc EXCEPT ![s] = "done"]
    /\ resp' = [resp EXCEPT ![s] = html_project_step(values[s])]
    /\ log' = [log EXCEPT ![s] = Append(@, "filter_map")]
    /\ UNCHANGED <<req, engine, markdown, values, serde_ok>>

-----------------------------------------------------------------------------
(* extract_markdown *)

\* A parse failure swallowed (unwrap_or_default): the pipeline goes on with
\* no nodes.
md_parse_step_lenient(text) ==
    LET r == from_html_str(text)
    IN [pc |-> "parsed", nodes |-> r.nodes, resp |-> NoResp]

md_parse_step(text) ==
    LET r == from_html_str(text)
    IN IF r.ok
       THEN [pc |-> "parsed", nodes |-> r.nodes, resp |-> NoResp]
       ELSE [pc |-> "done", nodes |-> <<>>,
             resp |-> Err(parse_error("Failed to parse markdown", r.err))]

\* The closure of the parse step copied to the evaluation step.
md_query_error_as_parse(e) == parse_error("Failed to parse markdown", e)

md_query_error(e) == invalid_request("Failed to query", e)

md_eval_step(e, query, nodes) ==
    LET r == engine_eval(e, query, into_values(nodes))
    IN IF r.ok
       THEN [pc |-> "evaluated", values |-> r.values, resp |-> NoResp,
             engine |-> r.engine]
       ELSE [pc |-> "done", values |-> <<>>,
             resp |-> Err(md_query_error(r.err)), engine |-> r.engine]

\* An empty projection reported as an error.
md_project_step_fail_empty(vals) ==
    IF filter_map(vals) = <<>>
    THEN Err(invalid_request("Failed to query", "no result"))
    ELSE CallToolResult_success(filter_map(vals))

\* A projection that drops only the none values.
md_project_step_keep_empty(vals) ==
    LET kept == SelectSeq(vals, LAMBDA v : ~is_none(v))
    IN CallToolResult_success([i \in 1..Len(kept) |-> Content_text(to_string(kept[i]))])

md_project_step(vals) == CallToolResult_success(filter_map(vals))

extract_markdown_parse(s, text, query) ==
    /\ pc[s] = "idle"
    /\ LET st == md_parse_step(text)
       IN /\ pc' = [pc EXCEPT ![s] = st.pc]
          /\ markdown' = [markdown EXCEPT ![s] = st.nodes]
          /\ resp' = [resp EXCEPT ![s] = st.resp]
    /\ req' = [req EXCEPT ![s] = Request("extract_markdown", text, Some(query))]
    /\ engine' = [engine EXCEPT ![s] = new_engine]
    /\ log' = [log EXCEPT ![s] = <<"default", "load_builtin_module", "from_html_str">>]
    /\ UNCHANGED <<values, serde_ok>>

extract_markdown_eval(s) ==
    /\ pc[s] = "parsed"
    /\ req[s].op = "extract_markdown"
    /\ LET st == md_eval_step(engine[s], req[s].query.value, markdown[s])
       IN /\ pc' = [pc EXCEPT ![s] = st.pc]
          /\ values' = [values EXCEPT ![s] = st.values]
          /\ resp' = [resp EXCEPT ![s] = st.resp]
          /\ engine' = [engine EXCEPT ![s] = st.engine]
    /\ log' = [log EXCEPT ![s] = Append(@, "eval")]
    /\ UNCHANGED <<req, markdown, serde_ok>>

extract_markdown_project(s) ==
    /\ pc[s] = "evaluated"
    /\ req[s].op = "extract_markdown"
    /\ pc' = [pc EXCEPT ![s] = "done"]
    /\ resp' = [resp EXCEPT ![s] = md_project_step(values[s])]
    /\ log' = [log EXCEPT ![s] = Append(@, "filter_map")]
    /\ UNCHANGED <<req, engine, markdown, values, serde_ok>>

-----------------------------------------------------------------------------
(* available_functions, available_selectors *)

functions_listing ==
    [i \in 1..Len(builtin_functions) |-> FunctionInfo(builtin_functions[i])]
        \o [i \in 1..Len(builtin_internal_functions) |-> FunctionInfo(builtin_internal_functions[i])]

selectors_listing == [i \in 1..Len(builtin_selectors) |-> SelectorInfo(builtin_selectors[i])]

available_functions_result ==
    expect(serde_json_to_string(functions_output(functions_listing)),
           "Failed to serialize functions")

available_selectors_result ==
    expect(serde_json_to_string(selectors_output(selectors_listing)),
           "Failed to serialize selectors")

available_functions(s) ==
    /\ pc[s] = "idle"
    /\ pc' = [pc EXCEPT ![s] = "done"]
    /\ req' = [req EXCEPT ![s] = Request("available_functions", "", None)]
    /\ resp' = [resp EXCEPT ![s] = available_functions_result]
    /\ log' = [log EXCEPT ![s] = <<"Hir::default", "to_string">>]
    /\ UNCHANGED <<engine, markdown, values, serde_ok>>

available_selectors(s) ==
    /\ pc[s] = "idle"
    /\ pc' = [pc EXCEPT ![s] = "done"]
    /\ req' = [req EXCEPT ![s] = Request("available_selectors", "", None)]
    /\ resp' = [resp EXCEPT ![s] = available_selectors_result]
    /\ log' = [log EXCEPT ![s] = <<"Hir::default", "to_string">>]
    /\ UNCHANGED <<engine, markdown, values, serde_ok>>

-----------------------------------------------------------------------------
(* The service loop: the response is written and the call's locals dropped *)

Return(s) ==
    /\ pc[s] = "done"
    /\ pc' = [pc EXCEPT ![s] = "idle"]
    /\ req' = [req EXCEPT ![s] = NoReq]
    /\ engine' = [engine EXCEPT ![s] = NoEngine]
    /\ markdown' = [markdown EXCEPT ![s] = <<>>]
    /\ values' = [values EXCEPT ![s] = <<>>]
    /\ resp' = [resp EXCEPT ![s] = NoResp]
    /\ log' = [log EXCEPT ![s] = <<>>]
    /\ UNCHANGED serde_ok

Idle ==
    /\ pc = [s \in Slots |-> "idle"]
    /\ req = [s \in Slots |-> NoReq]
    /\ engine = [s \in Slots |-> NoEngine]
    /\ markdown = [s \in Slots |-> <<>>]
    /\ values = [s \in Slots |-> <<>>]
    /\ resp = [s \in Slots |-> NoResp]
    /\ log = [s \in Slots |-> <<>>]

Init == Idle /\ serde_ok = TRUE

InitFault == Idle /\ serde_ok \in BOOLEAN

HtmlQueries == {None} \cup {Some(q) : q \in Queries}

Next ==
    \E s \in Slots :
        \/ \E html \in Texts, query \in HtmlQueries :
               html_to_markdown_parse(s, html, query)
        \/ html_to_markdown_eval(s)
        \/ html_to_markdown_project(s)
        \/ \E text \in Texts, query \in Queries :
               extract_markdown_parse(s, text, query)
        \/ extract_markdown_eval(s)
        \/ extract_markdown_project(s)
        \/ available_functions(s)
        \/ available_selectors(s)
        \/ Return(s)

Spec == Init /\ [][Next]_vars

\* The same server with a serializer that may fail on the listings.
SpecFault == InitFault /\ [][Next]_vars

-----------------------------------------------------------------------------
(* Vocabulary of the properties *)

Done(s) == pc[s] = "done"

IsQueryCall(s) == req[s].op \in {"html_to_markdown", "extract_markdown"}

Last(seq) == seq[Len(seq)]

\* The call's parse succeeded / its evaluation was run and failed / succeeded.
ParseFailed(s) == Done(s) /\ IsQueryCall(s) /\ Last(log[s]) = "from_html_str"
EvalFailed(s) == Done(s) /\ IsQueryCall(s) /\ Last(log[s]) = "eval"
Projected(s) == Done(s) /\ IsQueryCall(s) /\ Last(log[s]) = "filter_map"

\* The query text the call hands to the evaluator.
QueryUsed(s) ==
    IF req[s].query.some THEN req[s].query.value ELSE "identity()"

Survives(v) == ~is_none(v) /\ ~is_empty(v)

-----------------------------------------------------------------------------
(* C1: a finished html_to_markdown or extract_markdown call is a success    *)
(* carrying Content Units and no error, or an error carrying no Content    *)
(* Units, never both; a call whose evaluation failed carries none.         *)
C1_SuccessXorError ==
    \A s \in Slots :
        (Done(s) /\ IsQueryCall(s)) =>
            /\ \/ resp[s].tag = "Ok" /\ resp[s].error = NoError
               \/ resp[s].tag = "Err" /\ resp[s].error # NoError
                                      /\ resp[s].content = <<>>
            /\ EvalFailed(s) => resp[s].tag = "Err" /\ resp[s].content = <<>>

C1_Witness ==
    \E s \in Slots :
        /\ EvalFailed(s)
        /\ req[s].op = "html_to_markdown"
        /\ Len(markdown[s]) = 2
        /\ resp[s].tag = "Err"

(* C2: when the text parses, a malformed query, and any query whose        *)
(* evaluation fails, gives a QueryError: invalid_request, "Failed to       *)
(* query", the evaluator's message as detail; never a success.             *)
C2_QueryError ==
    \A s \in Slots :
        /\ (Done(s) /\ IsQueryCall(s) /\ from_html_str(req[s].text).ok
               /\ req[s].query = Some(QMalformed))
             => EvalFailed(s)
        /\ EvalFailed(s) =>
             /\ resp[s].tag = "Err"
             /\ resp[s].error.code = "INVALID_REQUEST"
             /\ resp[s].error.message = "Failed to query"
             /\ resp[s].error.data =
                  engine_eval(load_builtin_module(NoEngine), QueryUsed(s),
                              into_values(markdown[s])).err
             /\ resp[s].error.data # ""

C2_Witness ==
    \E s, t \in Slots :
        /\ EvalFailed(s) /\ req[s] = Request("extract_markdown", HtmlDoc, Some(QMalformed))
        /\ EvalFailed(t) /\ req[t].query = Some(QRuntimeFail)

(* C3: the pipeline is parse, then evaluate, then project; when the parser *)
(* fails the call returns a ParseError with the parser's message and the   *)
(* evaluator is never invoked, whatever the query.                         *)
PipelineOrder == <<"default", "load_builtin_module", "from_html_str", "eval", "filter_map">>

C3_ParseFirst ==
    \A s \in Slots :
        /\ (pc[s] # "idle" /\ IsQueryCall(s)) =>
              /\ Len(log[s]) \in 3..5
              /\ log[s] = SubSeq(PipelineOrder, 1, Len(log[s]))
        /\ (Done(s) /\ IsQueryCall(s) /\ ~from_html_str(req[s].text).ok) =>
              /\ resp[s].tag = "Err"
              /\ resp[s].error.code = "PARSE_ERROR"
              /\ resp[s].error.data = from_html_str(req[s].text).err
              /\ \A i \in 1..Len(log[s]) : log[s][i] # "eval"

C3_Witness ==
    \E s, t \in Slots :
        /\ ParseFailed(s) /\ req[s] = Request("extract_markdown", Unparseable, Some(QMalformed))
        /\ ParseFailed(t) /\ req[t] = Request("html_to_markdown", Unparseable, None)

(* C4: the Content Units of a success are the evaluation results that are  *)
(* neither none nor empty, each rendered to text, one unit per surviving   *)
(* value, in the order of the results.                                     *)
C4_Projection ==
    \A s \in Slots :
        Projected(s) =>
            LET kept == SelectSeq(values[s], Survives)
            IN /\ resp[s].tag = "Ok"
               /\ Len(resp[s].content) = Len(kept)
               /\ \A i \in 1..Len(kept) :
                      resp[s].content[i] = [type |-> "text", text |-> to_string(kept[i])]

C4_Witness ==
    \E s, t \in Slots :
        /\ Projected(s) /\ Len(values[s]) = 2 /\ Len(resp[s].content) = 1
        /\ Projected(t) /\ Len(values[t]) = 2 /\ Len(resp[t].content) = 2
        /\ resp[t].content[1].text = "# Test Heading"
        /\ resp[t].content[2].text = "This is a test paragraph."

(* C5: html_to_markdown without a query answers as html_to_markdown with   *)
(* the query "identity()", for every text.                                 *)
C5_DefaultIsIdentity ==
    \A s, t \in Slots :
        (/\ Done(s) /\ Done(t)
         /\ req[s].op = "html_to_markdown" /\ req[t].op = "html_to_markdown"
         /\ req[s].text = req[t].text
         /\ req[s].query = None /\ req[t].query = Some("identity()"))
        => resp[s] = resp[t]

C5_Witness ==
    \E s, t \in Slots :
        /\ Done(s) /\ req[s] = Request("html_to_markdown", HtmlDoc, None)
        /\ Done(t) /\ req[t] = Request("html_to_markdown", HtmlDoc, Some("identity()"))
        /\ Len(resp[s].content) = 2

(* C6: when parsing and evaluation succeed and every value is none or      *)
(* empty (or there is no value), the call is a success with zero Content   *)
(* Units, not an error.                                                    *)
C6_EmptyResult ==
    \A s \in Slots :
        (/\ Done(s) /\ IsQueryCall(s)
         /\ Len(log[s]) = 5
         /\ \A i \in 1..Len(values[s]) : is_none(values[s][i]) \/ is_empty(values[s][i]))
        => resp[s] = [tag |-> "Ok", content |-> <<>>, error |-> NoError]

C6_Witness ==
    \E s, t \in Slots :
        /\ Projected(s) /\ req[s] = Request("extract_markdown", EmptyDoc, Some(".h1"))
        /\ resp[s].tag = "Ok"
        /\ Projected(t) /\ Len(values[t]) = 2 /\ resp[t].content = <<>>

(* C7: a call's response depends only on its own parameters: two finished  *)
(* calls with the same parameters have the same response whatever the      *)
(* other slot ran before or meanwhile, and the engine a call evaluates     *)
(* with is its own, fresh, with the built-in vocabulary loaded.            *)
C7_Independent ==
    /\ \A s, t \in Slots :
           (Done(s) /\ Done(t) /\ req[s] = req[t]) => resp[s] = resp[t]
    /\ \A s \in Slots :
           pc[s] = "parsed" => engine[s] = [builtin |-> TRUE, defined |-> {}]

C7_Witness ==
    \E s, t \in Slots :
        /\ s # t
        /\ EvalFailed(s) /\ req[s].query = Some(QUse) /\ Len(markdown[s]) > 0
        /\ pc[t] = "evaluated" /\ "greet" \in engine[t].defined

-----------------------------------------------------------------------------
(* Reading a serialized document back: the fields of its top-level object *)

Depth(toks, i) ==
    Cardinality({k \in 1..(i - 1) : toks[k] \in {Punct("{"), Punct("[")}})
      - Cardinality({k \in 1..(i - 1) : toks[k] \in {Punct("}"), Punct("]")}})

IsDocument(toks) ==
    /\ Len(toks) >= 2
    /\ toks[1] = Punct("{")
    /\ toks[Len(toks)] = Punct("}")
    /\ \A i \in 2..Len(toks) : Depth(toks, i) >= 1

KeyAt(toks, i, key) ==
    /\ i + 2 <= Len(toks)
    /\ toks[i] = Tok("str", key)
    /\ toks[i + 1] = Punct(":")
    /\ Depth(toks, i) = 1

HasField(toks, key) == \E i \in 1..Len(toks) : KeyAt(toks, i, key)

\* The strings of the array of strings under `key` (<<>> when there is none)
StringsField(toks, key) ==
    IF ~HasField(toks, key) THEN <<>>
    ELSE LET i == CHOOSE k \in 1..Len(toks) : KeyAt(toks, k, key)
             j == CHOOSE k \in (i + 2)..Len(toks) :
                      /\ toks[k] = Punct("]")
                      /\ \A m \in (i + 3)..(k - 1) : toks[m] # Punct("]")
             inner == SubSeq(toks, i + 3, j - 1)
             strs == SelectSeq(inner, LAMBDA t : t.k = "str")
         IN [n \in 1..Len(strs) |-> strs[n].v]

(* C8: available_functions returns a success with exactly one Content      *)
(* Unit, a document with a "functions" field and an "examples" field       *)
(* holding the 3 fixed examples in order; available_selectors returns a    *)
(* success with one Content Unit holding a "selectors" field; both are     *)
(* the same on every call.                                                 *)
C8_Listings ==
    /\ \A s \in Slots :
          (Done(s) /\ req[s].op = "available_functions") =>
              /\ resp[s].tag = "Ok"
              /\ Len(resp[s].content) = 1
              /\ IsDocument(resp[s].content[1].text)
              /\ HasField(resp[s].content[1].text, "functions")
              /\ StringsField(resp[s].content[1].text, "examples") =
                   <<"select(or(.[], .code, .h)) | upcase() | add(\" Hello World\")",
                     "select(not(.code))",
                     ".code(\"js\")">>
    /\ \A s \in Slots :
          (Done(s) /\ req[s].op = "available_selectors") =>
              /\ resp[s].tag = "Ok"
              /\ Len(resp[s].content) = 1
              /\ IsDocument(resp[s].content[1].text)
              /\ HasField(resp[s].content[1].text, "selectors")
    /\ \A s, t \in Slots :
          (/\ Done(s) /\ Done(t) /\ req[s].op = req[t].op
           /\ req[s].op \in {"available_functions", "available_selectors"})
          => resp[s] = resp[t]

C8_Witness ==
    \E s, t \in Slots :
        /\ Done(s) /\ req[s].op = "available_functions" /\ resp[s].tag = "Ok"
        /\ Done(t) /\ req[t].op = "available_selectors" /\ resp[t].tag = "Ok"

(* C9: every operation returns a success or exactly one error kind         *)
(* (ParseError, QueryError, internal error); nothing is thrown past the    *)
(* router, also when serializing a listing fails.                          *)
C9_NothingThrown ==
    \A s \in Slots :
        Done(s) =>
            \/ resp[s].tag = "Ok"
            \/ /\ resp[s].tag = "Err"
               /\ resp[s].error.code \in {"PARSE_ERROR", "INVALID_REQUEST", "INTERNAL_ERROR"}

(* C10: extract_markdown(t, q) and html_to_markdown(t, q) give the same    *)
(* Content Units in the same order, or the same error, the ParseError      *)
(* differing only in its fixed message text.                               *)
C10_SamePipeline ==
    \A s, t \in Slots :
        (/\ Done(s) /\ Done(t)
         /\ req[s].op = "extract_markdown" /\ req[t].op = "html_to_markdown"
         /\ req[s].text = req[t].text
         /\ req[s].query = req[t].query)
        => /\ resp[s].tag = resp[t].tag
           /\ resp[s].content = resp[t].content
           /\ resp[s].error.code = resp[t].error.code
           /\ resp[s].error.data = resp[t].error.data
           /\ resp[s].error.code # "PARSE_ERROR" =>
                 resp[s].error.message = resp[t].error.message
           /\ resp[s].error.code = "PARSE_ERROR" =>
                 /\ resp[s].error.message = "Failed to parse markdown"
                 /\ resp[t].error.message = "Failed to parse html"

C10_Witness ==
    \E s, t \in Slots :
        /\ Done(s) /\ req[s] = Request("extract_markdown", HtmlDoc, Some(QEmptyStr))
        /\ Done(t) /\ req[t] = Request("html_to_markdown", HtmlDoc, Some(QEmptyStr))
        /\ resp[s].tag = "Ok"

====
